---- MODULE Spec2Model ----
(***************************************************************************)
(* A model of the RON decoding engine (src/src/de.rs) and of the dynamic  *)
(* value model (src/src/de/value.rs).                                      *)
(*                                                                         *)
(* A text is a TLA+ string, i.e. a sequence of one-character strings; the  *)
(* cursor of a decode session (Deserializer.bytes) is the suffix of the    *)
(* input that has not been consumed yet.  A decode result is a record      *)
(*   [ok, v, e, bytes]                                                     *)
(* holding the value (ok), or the error kind (~ok), and the cursor after   *)
(* the call.  The error kind "panic" stands for an unwinding panic!().     *)
(***************************************************************************)
EXTENDS Integers, Sequences, FiniteSets, TLC

VARIABLES
    input,       \* the text handed to from_str / Value::from_str
    target,      \* the shape T the caller asks for
    narrowing,   \* what the scanner does with an integer literal outside the
                 \* width it is asked for ("reject" or "wrap"); fixed per build
    bytes,       \* Deserializer.bytes: the unconsumed suffix of the input
    pc,          \* position of the session inside from_str
    it,          \* the CommaSeparated iterator of the top-level composite
    acc,         \* what the top-level visitor has collected so far
    key,         \* the key the top-level map visitor is holding
    steps,       \* number of iterator calls made by the top-level visitor
    t,           \* result of T::deserialize (de.rs:95)
    result,      \* what from_str returned
    res,         \* value.rs visit_map: the BTreeMap being built
    entries      \* value.rs visit_map: the entries next_entry yielded so far

vars == <<input, target, narrowing, bytes, pc, it, acc, key, steps, t, result,
          res, entries>>

(***************************************************************************)
(* Bounds of the model.                                                    *)
(***************************************************************************)
\* longest run of one character an edit inserts into a corpus text
MaxRepeat == 1
\* number of entries a MapAccess yields to ValueVisitor::visit_map
MaxEntries == 3

(***************************************************************************)
(* Results.                                                                *)
(***************************************************************************)
NoValue == <<>>
Ok(v, b) == [ok |-> TRUE, v |-> v, e |-> "", bytes |-> b]
Err(e, b) == [ok |-> FALSE, v |-> NoValue, e |-> e, bytes |-> b]
Panic(b) == Err("panic", b)
NoResult == [ok |-> FALSE, v |-> NoValue, e |-> "pending", bytes |-> ""]

(***************************************************************************)
(* The Scanner (parse::Bytes and the pom helpers space()/comma()).         *)
(***************************************************************************)
Whitespace == {" ", "\t", "\r", "\n"}
Digits == "0123456789"
DigitSet == {SubSeq(Digits, i, i) : i \in 1..10}
DigitVal(c) == (CHOOSE i \in 1..10 : SubSeq(Digits, i, i) = c) - 1
Letters == "abcdefghijklmnopqrstuvwxyzABCDEFGHIJKLMNOPQRSTUVWXYZ_"
IdentChars == {SubSeq(Letters, i, i) : i \in 1..Len(Letters)} \cup DigitSet

Advance(b, n) == SubSeq(b, n + 1, Len(b))
StartsWith(b, s) == Len(b) >= Len(s) /\ SubSeq(b, 1, Len(s)) = s

\* input.current(): the byte under the cursor, "" at the end of the input
Current(b) == IF b = "" THEN "" ELSE Head(b)

RECURSIVE skip_ws(_)
skip_ws(b) == IF b # "" /\ Head(b) \in Whitespace THEN skip_ws(Tail(b)) ELSE b

\* Bytes::consume: advance over an exact literal when it is next; the cursor
\* after the call (whether it advanced is StartsWith(b, s))
consume(b, s) == IF StartsWith(b, s) THEN Advance(b, Len(s)) ELSE b

\* Bytes::comma: consume a comma if present, a no-op otherwise
comma(b) == consume(b, ",")

\* a literal with the whitespace around it, as space() * sym(c) - space():
\* whether it matched, and the cursor after it
Padded(b1, c) ==
    IF StartsWith(b1, c) THEN [ok |-> TRUE, bytes |-> skip_ws(Advance(b1, 1))]
    ELSE [ok |-> FALSE, bytes |-> b1]

\* pom comma(): a comma, with the whitespace around it
parse_comma(b) == Padded(skip_ws(b), ",")

\* space() * sym(b':') - space()
parse_colon(b) == Padded(skip_ws(b), ":")

\* length of the longest prefix of b made of characters of S
RECURSIVE RunLen(_, _)
RunLen(b, S) == IF b # "" /\ Head(b) \in S THEN 1 + RunLen(Tail(b), S) ELSE 0

\* the number a string of decimal digits denotes
RECURSIVE DecValue(_)
DecValue(d) ==
    IF d = "" THEN 0
    ELSE 10 * DecValue(SubSeq(d, 1, Len(d) - 1)) + DigitVal(SubSeq(d, Len(d), Len(d)))

Pow2(w) == CASE w = 8 -> 256 [] w = 16 -> 65536
IntTypes == {"i8", "i16", "i32", "i64", "u8", "u16", "u32", "u64"}
Signed(ty) == ty \in {"i8", "i16", "i32", "i64"}
Width(ty) == CASE ty \in {"i8", "u8"} -> 8 [] ty \in {"i16", "u16"} -> 16
               [] ty \in {"i32", "u32"} -> 32 [] OTHER -> 64
\* the least value of the type; the literals of the model stay below 2^31,
\* so the 32- and 64-bit types hold every literal of their sign
MinOf(ty) == IF ~Signed(ty) THEN 0
             ELSE IF Width(ty) <= 16 THEN 0 - (Pow2(Width(ty)) \div 2)
             ELSE 0 - 2147483647
MaxOf(ty) == IF Width(ty) > 16 THEN 2147483647
             ELSE IF Signed(ty) THEN (Pow2(Width(ty)) \div 2) - 1
             ELSE Pow2(Width(ty)) - 1
InRange(ty, n) == MinOf(ty) <= n /\ n <= MaxOf(ty)
\* two's-complement narrowing of n to the type
Narrow(ty, n) == ((n - MinOf(ty)) % Pow2(Width(ty))) + MinOf(ty)

\* what the scanner makes of an integer literal of value n asked at type ty
integer_of(ty, n, b0, b1) ==
    IF InRange(ty, n) THEN Ok(<<"Int", n>>, b1)
    ELSE IF narrowing = "wrap" THEN Ok(<<"Int", Narrow(ty, n)>>, b1)
    ELSE Err("ExpectedInteger", b0)

\* the digits of an integer literal: n of them at b1, after the sign
integer_digits(ty, sign, b0, b1, n) ==
    IF n = 0 THEN Err("ExpectedInteger", b0)
    ELSE integer_of(ty, sign * DecValue(SubSeq(b1, 1, n)), b0, Advance(b1, n))

\* Bytes::signed_integer::<ty>
signed_integer(ty, b) ==
    IF StartsWith(b, "-")
    THEN integer_digits(ty, 0 - 1, b, Tail(b), RunLen(Tail(b), DigitSet))
    ELSE integer_digits(ty, 1, b, b, RunLen(b, DigitSet))

\* Bytes::unsigned_integer::<ty>
unsigned_integer(ty, b) == integer_digits(ty, 1, b, b, RunLen(b, DigitSet))

\* a decimal m / 10^k in lowest terms
RECURSIVE Normalise(_, _)
Normalise(m, k) ==
    IF k > 0 /\ m % 10 = 0 THEN Normalise(m \div 10, k - 1) ELSE <<"Float", m, k>>

\* a float literal with n digits at b1 and k digits after the point
float_digits(sign, b0, b1, n, k) ==
    IF n = 0 THEN Err("ExpectedFloat", b0)
    ELSE IF k = 0 THEN Ok(Normalise(sign * DecValue(SubSeq(b1, 1, n)), 0), Advance(b1, n))
    ELSE Ok(Normalise(sign * DecValue(SubSeq(b1, 1, n) \o SubSeq(b1, n + 2, n + 1 + k)), k),
            Advance(b1, n + 1 + k))
float_point(sign, b0, b1, n) ==
    float_digits(sign, b0, b1, n,
                 IF StartsWith(Advance(b1, n), ".")
                 THEN RunLen(Advance(b1, n + 1), DigitSet) ELSE 0)

\* Bytes::float: [-]digits[.digits]
float(b) ==
    IF StartsWith(b, "-") THEN float_point(0 - 1, b, Tail(b), RunLen(Tail(b), DigitSet))
    ELSE float_point(1, b, b, RunLen(b, DigitSet))

\* Bytes::bool
bool(b) ==
    IF StartsWith(b, "true") THEN Ok(<<"Bool", TRUE>>, Advance(b, 4))
    ELSE IF StartsWith(b, "false") THEN Ok(<<"Bool", FALSE>>, Advance(b, 5))
    ELSE Err("ExpectedBoolean", b)

identifier_run(b, n) ==
    IF n = 0 THEN Err("ExpectedIdentifier", b) ELSE Ok(SubSeq(b, 1, n), Advance(b, n))

\* Bytes::identifier: the raw bytes of a bare identifier
identifier(b) == identifier_run(b, RunLen(b, IdentChars))

(***************************************************************************)
(* Shapes.  A shape stands for a target type together with the visitor    *)
(* serde gives it:                                                         *)
(*   <<"bool">>, <<"i8">> .. <<"u64">>, <<"f32">>, <<"unit">>,             *)
(*   <<"option", T>>, <<"unit_struct", name>>,                             *)
(*   <<"newtype_struct", name, T>>, <<"seq", T>>  (Vec<T>),                *)
(*   <<"tuple", <<T1, .., Tn>>>>  (tuples and arrays),                     *)
(*   <<"tuple_struct", name, <<T1, .., Tn>>>>, <<"map", K, V>>  (HashMap), *)
(*   <<"struct", name, << <<field, T>>, .. >>>>,                           *)
(*   <<"enum", << <<variant, kind, payload>>, .. >>>>,                     *)
(*   <<"value">>  (the dynamic Value),                                     *)
(* and the seeds <<"field", names>>, <<"variant", names>> and              *)
(* <<"ignored_any">> the derived visitors use.                             *)
(***************************************************************************)
Kind(shape) == shape[1]

RECURSIVE Deserialize(_, _)

\* de.rs:125 deserialize_bool
deserialize_bool(b) == bool(b)

\* de.rs:131..177: each hands the scanner's integer to the visit_* it names,
\* and the scanner parses at the width of that visit_*'s parameter
deserialize_i8(b) == signed_integer("i8", b)
deserialize_i16(b) == signed_integer("i8", b)
deserialize_i32(b) == signed_integer("i32", b)
deserialize_i64(b) == signed_integer("i64", b)
deserialize_u8(b) == unsigned_integer("u8", b)
deserialize_u16(b) == unsigned_integer("u16", b)
deserialize_u32(b) == unsigned_integer("u32", b)
deserialize_u64(b) == unsigned_integer("u64", b)

\* de.rs:179..189 deserialize_f32 / deserialize_f64
deserialize_f32(b) == float(b)
deserialize_f64(b) == float(b)

\* de.rs:119 deserialize_any
deserialize_any(b) == Panic(b)

\* de.rs:417 deserialize_ignored_any
deserialize_ignored_any(b) == deserialize_any(b)

\* position of name in names, 0 when absent
IndexOf(names, name) ==
    IF \E i \in 1..Len(names) : names[i] = name
    THEN CHOOSE i \in 1..Len(names) : names[i] = name
    ELSE 0

\* the derived field visitor's visit_bytes: a known field, or the field to
\* ignore
visit_field(names, r) ==
    IF ~r.ok THEN r
    ELSE IF IndexOf(names, r.v) = 0 THEN Ok(<<"Ignore">>, r.bytes)
    ELSE Ok(<<"Field", IndexOf(names, r.v)>>, r.bytes)

\* the derived variant visitor's visit_bytes: a known variant, or an
\* unknown-variant error
visit_variant(names, r) ==
    IF ~r.ok THEN r
    ELSE IF IndexOf(names, r.v) = 0 THEN Err("Message", r.bytes)
    ELSE Ok(<<"Variant", IndexOf(names, r.v)>>, r.bytes)

\* de.rs:408 deserialize_identifier, for a field name and for a variant name
deserialize_field(names, b) == visit_field(names, identifier(b))
deserialize_variant(names, b) == visit_variant(names, identifier(b))

\* the closing literal lit at b, or the error err: Ok(v) past the literal
Closing(v, b, lit, err) ==
    IF StartsWith(b, lit) THEN Ok(v, Advance(b, Len(lit))) ELSE Err(err, b)

\* option_some that does not require the closing ")" (what C4_Option excludes)
option_some_open(v) ==
    IF ~v.ok THEN v ELSE Ok(<<"Some", v.v>>, v.bytes)

\* de.rs:237..243: after visit_some returned v
option_some(v) ==
    IF ~v.ok THEN v
    ELSE Closing(<<"Some", v.v>>, v.bytes, ")", "ExpectedOptionEnd")

\* de.rs:233 deserialize_option
deserialize_option(inner, b) ==
    IF StartsWith(b, "Some(") THEN CHOOSE y \in {option_some(v) : v \in {Deserialize(inner, consume(b, "Some("))}} : TRUE
    ELSE IF StartsWith(b, "None") THEN Ok(<<"None">>, consume(b, "None"))
    ELSE Err("ExpectedOption", b)

\* de.rs:253 deserialize_unit
deserialize_unit(b) ==
    IF StartsWith(b, "()") THEN Ok(<<"Unit">>, consume(b, "()"))
    ELSE Err("ExpectedUnit", b)

\* deserialize_unit_struct that accepts the name only (what C5_UnitEquivalence
\* excludes)
deserialize_unit_struct_named(name, b) ==
    IF StartsWith(b, name) THEN Ok(<<"Unit">>, consume(b, name))
    ELSE Err("ExpectedUnit", b)

\* de.rs:263 deserialize_unit_struct
deserialize_unit_struct(name, b) ==
    IF StartsWith(b, name) THEN Ok(<<"Unit">>, consume(b, name))
    ELSE deserialize_unit(b)

\* de.rs:287..294: after visit_newtype_struct returned value
newtype_struct_close(value) ==
    IF ~value.ok THEN value
    ELSE Closing(value.v, comma(value.bytes), ")", "ExpectedStructEnd")

\* de.rs:286..297: after the optional name
newtype_struct_open(inner, b) ==
    IF StartsWith(b, "(") THEN CHOOSE y \in {newtype_struct_close(v) : v \in {Deserialize(inner, consume(b, "("))}} : TRUE
    ELSE Err("ExpectedStruct", b)

\* de.rs:277 deserialize_newtype_struct
deserialize_newtype_struct(name, inner, b) ==
    newtype_struct_open(inner, consume(b, name))

(***************************************************************************)
(* CommaSeparated (de.rs:427): the iterator over the elements of a         *)
(* sequence or the entries of a map.  A call returns                       *)
(*   [ok, some, v, e, it]: Ok(Some(v)), Ok(None) or Err(e), and the        *)
(* iterator after the call.                                                *)
(***************************************************************************)
\* de.rs:434 CommaSeparated::new
CommaSeparated(terminator, b) ==
    [bytes |-> b, terminator |-> terminator, first |-> TRUE]

ItNone(i) == [ok |-> TRUE, some |-> FALSE, v |-> NoValue, e |-> "", it |-> i]
ItErr(e, i) == [ok |-> FALSE, some |-> FALSE, v |-> NoValue, e |-> e, it |-> i]
\* seed.deserialize(&mut *self.de).map(Some)
ItSome(r, i) ==
    [ok |-> r.ok, some |-> r.ok, v |-> r.v, e |-> r.e,
     it |-> [i EXCEPT !.bytes = r.bytes]]

\* de.rs:458..461: self.first = false, space(), the element itself
next_seed_value(i, seed, b) ==
    CHOOSE y \in {ItSome(r, [i EXCEPT !.first = FALSE]) :
                    r \in {Deserialize(seed, skip_ws(b))}} : TRUE

\* next_seed_comma without the second look at the terminator (what
\* C2_TrailingComma excludes)
next_seed_comma_strict(i, seed, commaErr, c) ==
    IF ~c.ok THEN ItErr(commaErr, i) ELSE next_seed_value(i, seed, c.bytes)

\* de.rs:451..456: the comma before an element that is not the first (c is
\* what comma().parse returned), and the terminator after a trailing comma
next_seed_comma(i, seed, commaErr, c) ==
    IF ~c.ok THEN ItErr(commaErr, i)
    ELSE IF Current(c.bytes) = i.terminator THEN ItNone([i EXCEPT !.bytes = c.bytes])
    ELSE next_seed_value(i, seed, c.bytes)

\* the body shared by next_element_seed (de.rs:442) and next_key_seed
\* (de.rs:468), which differ in the error of a missing comma
next_seed(i, seed, commaErr) ==
    IF Current(i.bytes) = i.terminator THEN ItNone(i)
    ELSE IF i.first THEN next_seed_value(i, seed, i.bytes)
    ELSE CHOOSE y \in {next_seed_comma(i, seed, commaErr, c) :
                         c \in {parse_comma(i.bytes)}} : TRUE

\* de.rs:442 SeqAccess::next_element_seed
next_element_seed(i, seed) == next_seed(i, seed, "ExpectedArrayComma")

\* de.rs:468 MapAccess::next_key_seed
next_key_seed(i, seed) == next_seed(i, seed, "ExpectedMapComma")

\* de.rs:494..497: c is what the colon parser returned
next_value_colon(i, seed, c) ==
    IF c.ok THEN CHOOSE y \in {ItSome(r, i) : r \in {Deserialize(seed, c.bytes)}} : TRUE
    ELSE ItErr("ExpectedMapColon", i)

\* de.rs:490 MapAccess::next_value_seed
next_value_seed(i, seed) ==
    CHOOSE y \in {next_value_colon(i, seed, c) : c \in {parse_colon(i.bytes)}} : TRUE

(***************************************************************************)
(* The visitors serde gives the shapes: what a visitor asks of the         *)
(* iterator it is handed, and what it builds from the answers.             *)
(***************************************************************************)
ElemShapes(shape) == IF Kind(shape) = "tuple" THEN shape[2] ELSE shape[3]
SeqLike(shape) == Kind(shape) \in {"seq", "tuple", "tuple_struct"}
MapLike(shape) == Kind(shape) \in {"map", "struct"}
FieldNames(fields) == [i \in 1..Len(fields) |-> fields[i][1]]

\* whether visit_seq asks for another element after n of them: Vec<T> reads
\* until None, a tuple or array of n elements reads exactly n
Wants(shape, n) ==
    IF Kind(shape) = "seq" THEN TRUE ELSE n < Len(ElemShapes(shape))
ElemSeed(shape, n) ==
    IF Kind(shape) = "seq" THEN shape[2] ELSE ElemShapes(shape)[n]
\* visit_seq is told there is no further element
SeqOnNone(shape, a, b) ==
    IF Kind(shape) = "seq" THEN Ok(<<"Seq", a>>, b) ELSE Err("Message", b)
\* visit_seq has read every element it wants
SeqDone(shape, a, b) == Ok(<<"Tuple", a>>, b)

\* visit_map: the accumulator before the first entry
MapInit(shape) ==
    IF Kind(shape) = "map" THEN {} ELSE [i \in 1..Len(shape[3]) |-> <<>>]
KeySeed(shape) ==
    IF Kind(shape) = "map" THEN shape[2] ELSE <<"field", FieldNames(shape[3])>>
\* the derived struct visitor refuses a field it has already read
Duplicate(shape, a, k) ==
    IF Kind(shape) = "struct" /\ k[1] = "Field" THEN a[k[2]] # <<>> ELSE FALSE
ValueSeed(shape, k) ==
    IF Kind(shape) = "map" THEN shape[3]
    ELSE IF k[1] = "Field" THEN shape[3][k[2]][2] ELSE <<"ignored_any">>
\* HashMap::insert / the assignment of a field
MapInsert(shape, a, k, v) ==
    IF Kind(shape) = "map" THEN {p \in a : p[1] # k} \cup {<<k, v>>}
    ELSE IF k[1] = "Field" THEN [a EXCEPT ![k[2]] = <<v>>] ELSE a
\* visit_map is told there is no further key
MapOnNone(shape, a, b) ==
    IF Kind(shape) = "map" THEN Ok(<<"Map", a>>, b)
    ELSE IF \E i \in 1..Len(a) : a[i] = <<>> THEN Err("Message", b)
    ELSE Ok(<<"Struct", [i \in 1..Len(a) |-> a[i][1]]>>, b)

\* Visitor::visit_seq driving a CommaSeparated to its end; visit_seq_next is
\* the visitor looking at what next_element returned
RECURSIVE visit_seq(_, _, _)
visit_seq_next(shape, a, r) ==
    IF ~r.ok THEN Err(r.e, r.it.bytes)
    ELSE IF ~r.some THEN SeqOnNone(shape, a, r.it.bytes)
    ELSE visit_seq(shape, r.it, Append(a, r.v))
visit_seq(shape, i, a) ==
    IF ~Wants(shape, Len(a)) THEN SeqDone(shape, a, i.bytes)
    ELSE CHOOSE y \in {visit_seq_next(shape, a, r) :
                         r \in {next_element_seed(i, ElemSeed(shape, Len(a) + 1))}} : TRUE

\* Visitor::visit_map driving a CommaSeparated to its end; visit_map_key and
\* visit_map_value are the visitor looking at what next_key and next_value
\* returned
RECURSIVE visit_map(_, _, _)
visit_map_value(shape, a, k, v) ==
    IF ~v.ok THEN Err(v.e, v.it.bytes)
    ELSE visit_map(shape, v.it, MapInsert(shape, a, k, v.v))
visit_map_key(shape, a, k) ==
    IF ~k.ok THEN Err(k.e, k.it.bytes)
    ELSE IF ~k.some THEN MapOnNone(shape, a, k.it.bytes)
    ELSE IF Duplicate(shape, a, k.v) THEN Err("Message", k.it.bytes)
    ELSE CHOOSE y \in {visit_map_value(shape, a, k.v, v) :
                         v \in {next_value_seed(k.it, ValueSeed(shape, k.v))}} : TRUE
visit_map(shape, i, a) ==
    CHOOSE y \in {visit_map_key(shape, a, k) : k \in {next_key_seed(i, KeySeed(shape))}} : TRUE

(***************************************************************************)
(* The composite shapes.  Each decode is split where it hands its          *)
(* iterator to the visitor: *_open is the code before visit_seq/visit_map  *)
(* (Ok and the cursor, or the error), *_close the code after it.           *)
(***************************************************************************)
Open(b, lit, err) == Closing(NoValue, b, lit, err)
\* value? ; self.bytes.comma(); then the closing delimiter or the error
Close(value, lit, err) ==
    IF ~value.ok THEN value ELSE Closing(value.v, comma(value.bytes), lit, err)

\* de.rs:300 deserialize_seq
seq_open(b) == Open(b, "[", "ExpectedArray")
seq_close(value) == Close(value, "]", "ExpectedArrayEnd")
seq_visit(visitor, o) ==
    IF ~o.ok THEN o
    ELSE CHOOSE y \in {seq_close(value) :
                         value \in {visit_seq(visitor, CommaSeparated("]", o.bytes), <<>>)}} : TRUE
deserialize_seq(visitor, b) ==
    CHOOSE y \in {seq_visit(visitor, o) : o \in {seq_open(b)}} : TRUE

\* de.rs:323 deserialize_tuple
tuple_open(b) == Open(b, "(", "ExpectedArray")
tuple_close(value) == Close(value, ")", "ExpectedArrayEnd")
tuple_visit(visitor, o) ==
    IF ~o.ok THEN o
    ELSE CHOOSE y \in {tuple_close(value) :
                         value \in {visit_seq(visitor, CommaSeparated(")", o.bytes), <<>>)}} : TRUE
deserialize_tuple(visitor, b) ==
    CHOOSE y \in {tuple_visit(visitor, o) : o \in {tuple_open(b)}} : TRUE

\* de.rs:344 deserialize_tuple_struct
tuple_struct_open(name, b) == tuple_open(consume(b, name))
deserialize_tuple_struct(name, visitor, b) ==
    deserialize_tuple(visitor, consume(b, name))

\* de.rs:356 deserialize_map
map_open(b) == Open(b, "{", "ExpectedMap")
map_close(value) == Close(value, "}", "ExpectedMapEnd")
map_visit(visitor, o) ==
    IF ~o.ok THEN o
    ELSE CHOOSE y \in {map_close(value) :
                         value \in {visit_map(visitor, CommaSeparated("}", o.bytes), MapInit(visitor))}} : TRUE
deserialize_map(visitor, b) ==
    CHOOSE y \in {map_visit(visitor, o) : o \in {map_open(b)}} : TRUE

\* de.rs:373 deserialize_struct
struct_open(name, b) == Open(consume(b, name), "(", "ExpectedStruct")
struct_close(value) == Close(value, ")", "ExpectedStructEnd")
struct_visit(visitor, o) ==
    IF ~o.ok THEN o
    ELSE CHOOSE y \in {struct_close(value) :
                         value \in {visit_map(visitor, CommaSeparated(")", o.bytes), MapInit(visitor))}} : TRUE
deserialize_struct(name, visitor, b) ==
    CHOOSE y \in {struct_visit(visitor, o) : o \in {struct_open(name, b)}} : TRUE

(***************************************************************************)
(* Enum (de.rs:501): the variant selector.                                 *)
(***************************************************************************)
VariantNames(variants) == [i \in 1..Len(variants) |-> variants[i][1]]

\* de.rs:515 EnumAccess::variant_seed
variant_seed(seed, b) == Deserialize(seed, b)

\* de.rs:526 VariantAccess::unit_variant
unit_variant(b) == Ok(<<"Unit">>, b)

\* newtype_variant_close without the optional comma (what C3_EnumVariants
\* excludes)
newtype_variant_close_nocomma(value) ==
    IF ~value.ok THEN value
    ELSE Closing(value.v, value.bytes, ")", "ExpectedStructEnd")

\* de.rs:535..539: after the seed returned value; the comma is optional
newtype_variant_close(value) ==
    IF ~value.ok THEN value
    ELSE Closing(value.v, parse_comma(value.bytes).bytes, ")", "ExpectedStructEnd")

\* de.rs:530 VariantAccess::newtype_variant_seed
newtype_variant_seed(seed, b) ==
    IF StartsWith(b, "(") THEN CHOOSE y \in {newtype_variant_close(value) : value \in {Deserialize(seed, consume(b, "("))}} : TRUE
    ELSE Err("ExpectedStruct", b)

\* de.rs:545 VariantAccess::tuple_variant
tuple_variant(visitor, b) == deserialize_tuple(visitor, b)

\* de.rs:551 VariantAccess::struct_variant
struct_variant(visitor, b) == deserialize_struct("", visitor, b)

\* the payload access the derived enum visitor makes for a variant
variant_payload(variant, b) ==
    CASE variant[2] = "unit" -> unit_variant(b)
      [] variant[2] = "newtype" -> newtype_variant_seed(variant[3], b)
      [] variant[2] = "tuple" -> tuple_variant(<<"tuple", variant[3]>>, b)
      [] variant[2] = "struct" -> struct_variant(<<"struct", "", variant[3]>>, b)

\* the derived visit_enum: the value of the variant once its payload is read
visit_enum_payload(name, payload) ==
    IF ~payload.ok THEN payload
    ELSE Ok(<<"Enum", name, payload.v>>, payload.bytes)

\* the derived visit_enum: after variant_seed returned value
visit_enum_variant(variants, value) ==
    IF ~value.ok THEN value
    ELSE CHOOSE y \in {visit_enum_payload(variants[value.v[2]][1], payload) :
                         payload \in {variant_payload(variants[value.v[2]], value.bytes)}} : TRUE

\* de.rs:397 deserialize_enum, with the derived visitor's visit_enum
deserialize_enum(variants, b) ==
    CHOOSE y \in {visit_enum_variant(variants, value) :
                    value \in {variant_seed(<<"variant", VariantNames(variants)>>, b)}} : TRUE

(***************************************************************************)
(* T::deserialize(&mut deserializer): the decode operation the shape's     *)
(* Deserialize implementation asks of the engine.                          *)
(***************************************************************************)
Deserialize(shape, b) ==
    CASE Kind(shape) = "bool" -> deserialize_bool(b)
      [] Kind(shape) = "i8" -> deserialize_i8(b)
      [] Kind(shape) = "i16" -> deserialize_i16(b)
      [] Kind(shape) = "i32" -> deserialize_i32(b)
      [] Kind(shape) = "i64" -> deserialize_i64(b)
      [] Kind(shape) = "u8" -> deserialize_u8(b)
      [] Kind(shape) = "u16" -> deserialize_u16(b)
      [] Kind(shape) = "u32" -> deserialize_u32(b)
      [] Kind(shape) = "u64" -> deserialize_u64(b)
      [] Kind(shape) = "f32" -> deserialize_f32(b)
      [] Kind(shape) = "f64" -> deserialize_f64(b)
      [] Kind(shape) = "option" -> deserialize_option(shape[2], b)
      [] Kind(shape) = "unit" -> deserialize_unit(b)
      [] Kind(shape) = "unit_struct" -> deserialize_unit_struct(shape[2], b)
      [] Kind(shape) = "newtype_struct" ->
             deserialize_newtype_struct(shape[2], shape[3], b)
      [] Kind(shape) = "seq" -> deserialize_seq(shape, b)
      [] Kind(shape) = "tuple" -> deserialize_tuple(shape, b)
      [] Kind(shape) = "tuple_struct" -> deserialize_tuple_struct(shape[2], shape, b)
      [] Kind(shape) = "map" -> deserialize_map(shape, b)
      [] Kind(shape) = "struct" -> deserialize_struct(shape[2], shape, b)
      [] Kind(shape) = "enum" -> deserialize_enum(shape[2], b)
      [] Kind(shape) = "field" -> deserialize_field(shape[2], b)
      [] Kind(shape) = "variant" -> deserialize_variant(shape[2], b)
      [] Kind(shape) = "ignored_any" -> deserialize_ignored_any(b)
      [] Kind(shape) = "value" -> deserialize_any(b)

\* end that accepts whatever is left (what C1_TrailingCharacters excludes)
end_unchecked(b) == Ok(NoValue, b)

\* de.rs:105 Deserializer::end
end(b) ==
    IF skip_ws(b) = "" THEN Ok(NoValue, "")
    ELSE Err("TrailingCharacters", skip_ws(b))

\* de.rs:97..99: deserializer.end()?; Ok(t)
from_str_end(v, e) == IF ~e.ok THEN e ELSE Ok(v, e.bytes)

\* de.rs:95..99: what from_str returns once T::deserialize has returned r
from_str_return(r) == IF ~r.ok THEN r ELSE from_str_end(r.v, end(r.bytes))

\* de.rs:91 from_str
from_str(shape, s) ==
    CHOOSE y \in {from_str_return(r) : r \in {Deserialize(shape, s)}} : TRUE

\* value.rs:60 Value::from_str
value_from_str(s) == Deserialize(<<"value">>, s)

(***************************************************************************)
(* value.rs: the dynamic Value, its total order and the map visit_map      *)
(* builds.  A BTreeMap is the sequence of its entries <<key, value>> in    *)
(* ascending key order.  Dynamic values are <<"Bool", b>>, <<"Number", n>>,*)
(* <<"Option", <<>>>>, <<"Option", <<v>>>>, <<"Seq", vs>> and <<"Unit">>.  *)
(***************************************************************************)
\* value.rs:47 derive(Ord): variants compare by their place in the enum
Rank(v) ==
    CASE v[1] = "Bool" -> 0 [] v[1] = "Char" -> 1 [] v[1] = "Map" -> 2
      [] v[1] = "Number" -> 3 [] v[1] = "Option" -> 4 [] v[1] = "String" -> 5
      [] v[1] = "Seq" -> 6 [] v[1] = "Unit" -> 7

CmpInt(a, b) == IF a < b THEN 0 - 1 ELSE IF a > b THEN 1 ELSE 0

\* value.rs:47 derive(Ord) for Value (value.rs:41 Ord for Number): -1, 0 or 1
RECURSIVE Cmp(_, _)
CmpSeq(x, y, n) ==
    IF \E i \in 1..n : Cmp(x[i], y[i]) # 0
    THEN LET i == CHOOSE j \in 1..n :
                      Cmp(x[j], y[j]) # 0 /\ \A l \in 1..(j - 1) : Cmp(x[l], y[l]) = 0
         IN Cmp(x[i], y[i])
    ELSE CmpInt(Len(x), Len(y))
Cmp(a, b) ==
    IF Rank(a) # Rank(b) THEN CmpInt(Rank(a), Rank(b))
    ELSE CASE a[1] = "Bool" -> CmpInt(IF a[2] THEN 1 ELSE 0, IF b[2] THEN 1 ELSE 0)
           [] a[1] = "Number" -> CmpInt(a[2], b[2])
           [] a[1] \in {"Option", "Seq"} ->
                  CmpSeq(a[2], b[2], IF Len(a[2]) < Len(b[2]) THEN Len(a[2]) ELSE Len(b[2]))
           [] a[1] = "Unit" -> 0

\* an insert that keeps the value a key already has (what C8_MapLastWriteWins
\* excludes)
RECURSIVE btree_insert_keep(_, _, _)
btree_insert_keep(m, k, v) ==
    IF m = <<>> THEN << <<k, v>> >>
    ELSE IF Cmp(k, Head(m)[1]) = 0 THEN m
    ELSE IF Cmp(k, Head(m)[1]) < 0 THEN << <<k, v>> >> \o m
    ELSE << Head(m) >> \o btree_insert_keep(Tail(m), k, v)

\* BTreeMap::insert as value.rs:182 uses it
RECURSIVE btree_insert(_, _, _)
btree_insert(m, k, v) ==
    IF m = <<>> THEN << <<k, v>> >>
    ELSE IF Cmp(k, Head(m)[1]) = 0 THEN << <<k, v>> >> \o Tail(m)
    ELSE IF Cmp(k, Head(m)[1]) < 0 THEN << <<k, v>> >> \o m
    ELSE << Head(m) >> \o btree_insert(Tail(m), k, v)

\* value.rs:176 ValueVisitor::visit_map over the entries es, starting from m
RECURSIVE value_visit_map(_, _)
value_visit_map(m, es) ==
    IF es = <<>> THEN m
    ELSE value_visit_map(btree_insert(m, Head(es)[1], Head(es)[2]), Tail(es))

(***************************************************************************)
(* The types of the tests (de.rs:566..581, 597..604, 612..647).            *)
(***************************************************************************)
Bool == <<"bool">>
I32 == <<"i32">>
F32 == <<"f32">>
EmptyStruct1 == <<"unit_struct", "EmptyStruct1">>
EmptyStruct2 == <<"struct", "EmptyStruct2", <<>>>>
MyStruct == <<"struct", "MyStruct", << <<"x", F32>>, <<"y", F32>> >>>>
MyEnum ==
    <<"enum", << <<"A", "unit", NoValue>>, <<"B", "newtype", Bool>>,
                 <<"C", "tuple", <<Bool, F32>>>>,
                 <<"D", "struct", << <<"a", I32>>, <<"b", I32>> >>>> >>>>
NewType == <<"newtype_struct", "NewType", I32>>
TupleStruct == <<"tuple_struct", "TupleStruct", <<F32, F32>>>>
OptionU8 == <<"option", <<"u8">>>>
Array0 == <<"tuple", <<>>>>
Array3 == <<"tuple", <<I32, I32, I32>>>>
VecI32 == <<"seq", I32>>
TupleBB == <<"tuple", <<Bool, Bool>>>>
MapTuple == <<"map", TupleBB, I32>>
MapBool == <<"map", Bool, I32>>
Unit == <<"unit">>
Value == <<"value">>
IntShapes == {<<ty>> : ty \in IntTypes}

(***************************************************************************)
(* The inputs: the texts of the tests and of the grammar, each with its    *)
(* target, and every text one edit away from them.                         *)
(***************************************************************************)
Corpus ==
    { <<EmptyStruct1, "EmptyStruct1">>, <<EmptyStruct1, "()">>,
      <<EmptyStruct2, "EmptyStruct2()">>, <<EmptyStruct2, "()">>,
      <<MyStruct, "MyStruct(x:4,y:7,)">>, <<MyStruct, "(x:4,y:7)">>,
      <<NewType, "NewType(42)">>, <<NewType, "(33)">>,
      <<TupleStruct, "TupleStruct(2,5,)">>, <<TupleStruct, "(3,4)">>,
      <<OptionU8, "Some(1)">>, <<OptionU8, "None">>,
      <<MyEnum, "A">>, <<MyEnum, "B(true,)">>, <<MyEnum, "C(true,3.5,)">>,
      <<MyEnum, "D(a:2,b:3,)">>, <<MyEnum, "MyEnum(A)">>,
      <<Array0, "()">>, <<VecI32, "[]">>, <<Array3, "(2,3,4,)">>,
      <<VecI32, "[2,3,4,]">>, <<VecI32, "[1,2]">>, <<TupleBB, "(true,false)">>,
      <<MapTuple, "{\n (true,false,):4,\n (false,false,):123,\n}">>,
      <<MapBool, "{true:1,false:2}">>, <<MapBool, "{true:1,true:2}">>,
      <<Unit, "()">>, <<Bool, "true">>, <<F32, "3.5">>,
      <<Value, "None">>, <<Value, "[1]">> }

IntLiterals ==
    { "0", "1", "127", "128", "-128", "-129", "255", "256", "300", "32767",
      "32768", "-32768", "-32769", "65535", "65536" }

InsertChars == {",", " ", ")", "1", "x"}

RECURSIVE Repeat(_, _)
Repeat(c, n) == IF n = 0 THEN "" ELSE c \o Repeat(c, n - 1)

\* s itself, s without one character, s with a run of one character inserted
Edits(s) ==
    {s}
    \cup {SubSeq(s, 1, i - 1) \o SubSeq(s, i + 1, Len(s)) : i \in 1..Len(s)}
    \cup UNION { UNION { {SubSeq(s, 1, i) \o Repeat(c, n) \o SubSeq(s, i + 1, Len(s)) :
                            i \in 0..Len(s)} : c \in InsertChars } : n \in 1..MaxRepeat }

NoIt == CommaSeparated("", "")

Init ==
    /\ \E p \in Corpus \cup (IntShapes \X IntLiterals) :
          /\ target = p[1]
          /\ input \in Edits(p[2])
    /\ narrowing \in {"reject", "wrap"}
    /\ bytes = input
    /\ pc = "start"
    /\ it = NoIt
    /\ acc = <<>>
    /\ key = NoValue
    /\ steps = 0
    /\ t = NoResult
    /\ result = NoResult
    /\ res = <<>>
    /\ entries = <<>>

Composite(shape) ==
    Kind(shape) \in {"seq", "tuple", "tuple_struct", "map", "struct"}

\* the code of the target's decode operation before it calls the visitor
OpenOf(shape, b) ==
    CASE Kind(shape) = "seq" -> seq_open(b)
      [] Kind(shape) = "tuple" -> tuple_open(b)
      [] Kind(shape) = "tuple_struct" -> tuple_struct_open(shape[2], b)
      [] Kind(shape) = "map" -> map_open(b)
      [] Kind(shape) = "struct" -> struct_open(shape[2], b)
\* the code of the target's decode operation after the visitor returned Ok
CloseOf(shape, value) ==
    CASE Kind(shape) = "seq" -> seq_close(value)
      [] Kind(shape) \in {"tuple", "tuple_struct"} -> tuple_close(value)
      [] Kind(shape) = "map" -> map_close(value)
      [] Kind(shape) = "struct" -> struct_close(value)
TerminatorOf(shape) ==
    CASE Kind(shape) = "seq" -> "]"
      [] Kind(shape) = "map" -> "}"
      [] OTHER -> ")"

Session == <<input, target, narrowing>>
MapVars == <<res, entries>>
Others == <<Session, MapVars, result>>

\* the visitor's call, or the decode operation itself, returns to from_str
Return(r) ==
    /\ t' = r
    /\ bytes' = r.bytes
    /\ pc' = "return"
    /\ UNCHANGED <<it, acc, key>>

\* T::deserialize for a target that is no sequence or map: one call
DeserializePlain ==
    /\ pc = "start"
    /\ ~Composite(target)
    /\ \E r \in {Deserialize(target, bytes)} : Return(r)
    /\ UNCHANGED <<Others, steps>>

\* the decode operation has consumed its opening delimiter (o), or failed
Opened(o) ==
    IF ~o.ok THEN Return(o)
    ELSE /\ it' = CommaSeparated(TerminatorOf(target), o.bytes)
         /\ bytes' = o.bytes
         /\ acc' = IF MapLike(target) THEN MapInit(target) ELSE <<>>
         /\ pc' = IF MapLike(target) THEN "key" ELSE "element"
         /\ UNCHANGED <<key, t>>

\* T::deserialize for a sequence or a map, up to the call of the visitor
DeserializeOpen ==
    /\ pc = "start"
    /\ Composite(target)
    /\ \E o \in {OpenOf(target, bytes)} : Opened(o)
    /\ UNCHANGED <<Others, steps>>

\* the visitor returns the value v to the decode operation
VisitorReturns(v) ==
    IF v.ok THEN /\ t' = v
                 /\ bytes' = v.bytes
                 /\ pc' = "close"
                 /\ UNCHANGED <<it, acc, key>>
    ELSE Return(v)

\* the visitor is handed the element while the iterator stays where it was
\* (what C11_Terminates excludes)
NextElementRepeats(r) ==
    IF ~r.ok THEN Return(Err(r.e, r.it.bytes))
    ELSE IF ~r.some THEN VisitorReturns(SeqOnNone(target, acc, r.it.bytes))
    ELSE /\ acc' = Append(acc, r.v)
         /\ UNCHANGED <<it, bytes, pc, key, t>>

\* visit_seq looks at what next_element_seed returned
NextElementReturns(r) ==
    IF ~r.ok THEN Return(Err(r.e, r.it.bytes))
    ELSE IF ~r.some THEN VisitorReturns(SeqOnNone(target, acc, r.it.bytes))
    ELSE /\ it' = r.it
         /\ bytes' = r.it.bytes
         /\ acc' = Append(acc, r.v)
         /\ UNCHANGED <<pc, key, t>>

\* visit_seq calls next_element_seed
NextElement ==
    /\ pc = "element"
    /\ Wants(target, Len(acc))
    /\ \E r \in {next_element_seed(it, ElemSeed(target, Len(acc) + 1))} :
          NextElementReturns(r)
    /\ steps' = steps + 1
    /\ UNCHANGED <<Others>>

\* visit_seq has every element it wants and returns
VisitSeqDone ==
    /\ pc = "element"
    /\ ~Wants(target, Len(acc))
    /\ VisitorReturns(SeqDone(target, acc, it.bytes))
    /\ UNCHANGED <<Others, steps>>

\* visit_map looks at what next_key_seed returned
NextKeyReturns(k) ==
    IF ~k.ok THEN Return(Err(k.e, k.it.bytes))
    ELSE IF ~k.some THEN VisitorReturns(MapOnNone(target, acc, k.it.bytes))
    ELSE IF Duplicate(target, acc, k.v) THEN Return(Err("Message", k.it.bytes))
    ELSE /\ it' = k.it
         /\ bytes' = k.it.bytes
         /\ key' = k.v
         /\ pc' = "value"
         /\ UNCHANGED <<acc, t>>

\* visit_map calls next_key_seed
NextKey ==
    /\ pc = "key"
    /\ \E k \in {next_key_seed(it, KeySeed(target))} : NextKeyReturns(k)
    /\ steps' = steps + 1
    /\ UNCHANGED <<Others>>

\* visit_map looks at what next_value_seed returned
NextValueReturns(v) ==
    IF ~v.ok THEN Return(Err(v.e, v.it.bytes))
    ELSE /\ it' = v.it
         /\ bytes' = v.it.bytes
         /\ acc' = MapInsert(target, acc, key, v.v)
         /\ pc' = "key"
         /\ UNCHANGED <<key, t>>

\* visit_map calls next_value_seed
NextValue ==
    /\ pc = "value"
    /\ \E v \in {next_value_seed(it, ValueSeed(target, key))} : NextValueReturns(v)
    /\ steps' = steps + 1
    /\ UNCHANGED <<Others>>

\* the decode operation after visit_seq / visit_map returned Ok
DeserializeClose ==
    /\ pc = "close"
    /\ \E r \in {CloseOf(target, t)} : Return(r)
    /\ UNCHANGED <<Others, steps>>

\* de.rs:95..99, value.rs:61: the entry point returns
FromStrReturn ==
    /\ pc = "return"
    /\ result' = IF target = Value THEN t ELSE from_str_return(t)
    /\ bytes' = result'.bytes
    /\ pc' = "done"
    /\ UNCHANGED <<Session, MapVars, it, acc, key, steps, t>>

Next ==
    \/ DeserializePlain
    \/ DeserializeOpen
    \/ NextElement
    \/ VisitSeqDone
    \/ NextKey
    \/ NextValue
    \/ DeserializeClose
    \/ FromStrReturn

Spec == Init /\ [][Next]_vars

(***************************************************************************)
(* The same session from the caller's side: the caller picks a text and a  *)
(* target and calls from_str, which builds the session (de.rs:94) and runs *)
(* it.  from_str is one synchronous call, so a session that can take a     *)
(* step takes it.                                                          *)
(***************************************************************************)
InitLive ==
    /\ input = ""
    /\ target = Unit
    /\ narrowing \in {"reject", "wrap"}
    /\ bytes = ""
    /\ pc = "call"
    /\ it = NoIt
    /\ acc = <<>>
    /\ key = NoValue
    /\ steps = 0
    /\ t = NoResult
    /\ result = NoResult
    /\ res = <<>>
    /\ entries = <<>>

\* de.rs:94 Deserializer::from_str(s): the session over the caller's text
FromStr ==
    /\ pc = "call"
    /\ \E p \in Corpus \cup (IntShapes \X IntLiterals) :
          /\ target' = p[1]
          /\ input' \in Edits(p[2])
    /\ bytes' = input'
    /\ pc' = "start"
    /\ UNCHANGED <<narrowing, MapVars, it, acc, key, steps, t, result>>

NextLive ==
    \/ FromStr
    \/ Next

FairSpec == InitLive /\ [][NextLive]_vars /\ WF_vars(NextLive)

(***************************************************************************)
(* ValueVisitor::visit_map on its own: a MapAccess yields entries one by   *)
(* one and the visitor inserts each into the BTreeMap it returns.          *)
(***************************************************************************)
DynKeys ==
    { <<"Bool", FALSE>>, <<"Bool", TRUE>>, <<"Number", 1>>, <<"Option", <<>>>>,
      <<"Option", << <<"Number", 1>> >>>>, <<"Seq", << <<"Bool", TRUE>> >>>>,
      <<"Unit">> }
DynValues == { <<"Number", 4>>, <<"Number", 123>> }

InitMap ==
    /\ input = ""
    /\ target = Value
    /\ narrowing = "reject"
    /\ bytes = ""
    /\ pc = "entries"
    /\ it = NoIt
    /\ acc = <<>>
    /\ key = NoValue
    /\ steps = 0
    /\ t = NoResult
    /\ result = NoResult
    /\ res = <<>>
    /\ entries = <<>>

\* value.rs:181..183: next_entry yields Some(entry), the visitor inserts it
NextEntry ==
    /\ pc = "entries"
    /\ Len(entries) < MaxEntries
    /\ \E k \in DynKeys, v \in DynValues :
          /\ entries' = Append(entries, <<k, v>>)
          /\ res' = btree_insert(res, k, v)
    /\ UNCHANGED <<Session, bytes, pc, it, acc, key, steps, t, result>>

\* value.rs:185: next_entry yields None, the visitor returns Ok(Value::Map(res))
VisitMapReturn ==
    /\ pc = "entries"
    /\ result' = Ok(<<"Map", res>>, bytes)
    /\ pc' = "done"
    /\ UNCHANGED <<Session, MapVars, bytes, it, acc, key, steps, t>>

NextMap ==
    \/ NextEntry
    \/ VisitMapReturn

SpecMap == InitMap /\ [][NextMap]_vars

(***************************************************************************)
(* Properties.  Those of from_str are stated on the states of Spec in      *)
(* which from_str has returned (pc = "done"): input is the text, target    *)
(* the shape, t what T::deserialize returned and result what from_str      *)
(* returned.  Those of ValueVisitor::visit_map are stated on SpecMap.      *)
(***************************************************************************)
Done == pc = "done"
CharAt(s, j) == IF j \in 1..Len(s) THEN SubSeq(s, j, j) ELSE ""
AllWhitespace(s) == \A j \in 1..Len(s) : CharAt(s, j) \in Whitespace

\* C1: from_str returns Ok(v) only if nothing but whitespace is left after
\* the top-level value, and then v is the decoded value; when the top-level
\* decode succeeds and a non-whitespace byte is left, from_str returns
\* Err(TrailingCharacters); an error of the decode is returned as it is.
C1_TrailingCharacters ==
    (Done /\ target # Value) =>
        /\ result.ok => (t.ok /\ AllWhitespace(t.bytes) /\ result.v = t.v)
        /\ (t.ok /\ ~AllWhitespace(t.bytes)) =>
               (~result.ok /\ result.e = "TrailingCharacters" /\ result.v = NoValue)
        /\ ~t.ok => (~result.ok /\ result.e = t.e)

\* a decode that succeeded and left a non-whitespace byte
C1_Witness ==
    /\ Done /\ target # Value
    /\ t.ok /\ ~AllWhitespace(t.bytes)
    /\ result.e = "TrailingCharacters"

\* where in the input the closing delimiter of the top-level value is, once
\* its decode has succeeded
CloserAt == Len(input) - Len(t.bytes)
\* the number of elements or entries of a decoded sequence, tuple, map, struct
Elements(v) == IF v[1] = "Map" THEN Cardinality(v[2]) ELSE Len(v[2])
\* the input with a comma put before its closing delimiter
WithComma ==
    SubSeq(input, 1, CloserAt - 1) \o "," \o SubSeq(input, CloserAt, Len(input))
\* the input without the byte before its closing delimiter
WithoutComma ==
    SubSeq(input, 1, CloserAt - 2) \o SubSeq(input, CloserAt, Len(input))
SameAsResult(r) == r.ok /\ r.v = result.v

AfterName == identifier(input).bytes
EnumOf(name, payload) ==
    IF payload.ok THEN Ok(<<"Enum", name, payload.v>>, payload.bytes) ELSE payload

\* C3: the enum decode consumes the variant name and nothing of the type
\* name; then a unit variant consumes nothing more, a newtype variant is "(",
\* one value, an optional comma and ")", a tuple variant is decoded as a
\* tuple and a struct-like variant as a struct of the empty name.  The texts
\* of test_enum decode to their variants.
C3_EnumVariants ==
    (Done /\ target = MyEnum) =>
        /\ (~identifier(input).ok
              \/ identifier(input).v \notin {"A", "B", "C", "D"}) => ~t.ok
        /\ StartsWith(input, "MyEnum") => ~t.ok
        /\ (identifier(input).ok /\ identifier(input).v = "A") =>
               t = Ok(<<"Enum", "A", <<"Unit">>>>, AfterName)
        /\ (identifier(input).ok /\ identifier(input).v = "B") =>
               /\ t.ok => /\ StartsWith(AfterName, "(")
                          /\ Deserialize(Bool, Advance(AfterName, 1)).ok
                          /\ t.v = <<"Enum", "B",
                                     Deserialize(Bool, Advance(AfterName, 1)).v>>
                          /\ CharAt(input, Len(input) - Len(t.bytes)) = ")"
               /\ ~StartsWith(AfterName, "(") => t.e = "ExpectedStruct"
        /\ (identifier(input).ok /\ identifier(input).v = "C") =>
               t = EnumOf("C", deserialize_tuple(<<"tuple", <<Bool, F32>>>>, AfterName))
        /\ (identifier(input).ok /\ identifier(input).v = "D") =>
               t = EnumOf("D", deserialize_struct("",
                        <<"struct", "", << <<"a", I32>>, <<"b", I32>> >>>>, AfterName))
        /\ input = "A" => result = Ok(<<"Enum", "A", <<"Unit">>>>, "")
        /\ input \in {"B(true,)", "B(true)"} =>
               result = Ok(<<"Enum", "B", <<"Bool", TRUE>>>>, "")
        /\ input = "C(true,3.5,)" =>
               result = Ok(<<"Enum", "C",
                             <<"Tuple", << <<"Bool", TRUE>>, <<"Float", 35, 1>> >>>>>>, "")
        /\ input = "D(a:2,b:3,)" =>
               result = Ok(<<"Enum", "D",
                             <<"Struct", << <<"Int", 2>>, <<"Int", 3>> >>>>>>, "")

\* the newtype variant of test_enum, decoded
C3_Witness ==
    /\ Done /\ target = MyEnum /\ input = "B(true,)"
    /\ result.ok /\ result.v[2] = "B"

\* C4: an option text that starts with "Some(" decodes the inner value,
\* returns its error unchanged, and otherwise requires ")": the present
\* value with it, ExpectedOptionEnd without it; a text that starts with
\* "None" decodes to the absent value; any other text fails with
\* ExpectedOption.  "Some(1)" decodes to the present value 1.
C4_Option ==
    (Done /\ target = OptionU8) =>
        /\ StartsWith(input, "Some(") =>
               IF ~Deserialize(<<"u8">>, Advance(input, 5)).ok
               THEN t = Deserialize(<<"u8">>, Advance(input, 5))
               ELSE IF StartsWith(Deserialize(<<"u8">>, Advance(input, 5)).bytes, ")")
               THEN /\ t.ok
                    /\ t.v = <<"Some", Deserialize(<<"u8">>, Advance(input, 5)).v>>
                    /\ t.bytes = Advance(Deserialize(<<"u8">>, Advance(input, 5)).bytes, 1)
               ELSE ~t.ok /\ t.e = "ExpectedOptionEnd"
        /\ (~StartsWith(input, "Some(") /\ StartsWith(input, "None")) =>
               t = Ok(<<"None">>, Advance(input, 4))
        /\ (~StartsWith(input, "Some(") /\ ~StartsWith(input, "None")) =>
               (~t.ok /\ t.e = "ExpectedOption")
        /\ input = "Some(1)" => result = Ok(<<"Some", <<"Int", 1>>>>, "")
        /\ input = "None" => result = Ok(<<"None">>, "")

\* "Some(" and a value with no ")" after it, refused
C4_Witness ==
    /\ Done /\ target = OptionU8
    /\ StartsWith(input, "Some(")
    /\ Deserialize(<<"u8">>, Advance(input, 5)).ok
    /\ result.e = "ExpectedOptionEnd"

\* C5: a named unit type decodes to the same value from its name and from
\* "()", and fails with ExpectedUnit when the text starts with neither; a
\* struct without fields decodes to the same value from "TypeName()" and
\* from "()".
C5_UnitEquivalence ==
    /\ (Done /\ target = EmptyStruct1) =>
          /\ StartsWith(input, "EmptyStruct1") =>
                 t = Ok(<<"Unit">>, Advance(input, Len("EmptyStruct1")))
          /\ StartsWith(input, "()") => t = Ok(<<"Unit">>, Advance(input, 2))
          /\ (~StartsWith(input, "EmptyStruct1") /\ ~StartsWith(input, "()")) =>
                 (~t.ok /\ t.e = "ExpectedUnit")
          /\ input \in {"EmptyStruct1", "()"} => result = Ok(<<"Unit">>, "")
    /\ (Done /\ target = EmptyStruct2) =>
          /\ input \in {"EmptyStruct2()", "()"} => result = Ok(<<"Struct", <<>>>>, "")
          /\ from_str(EmptyStruct2, "EmptyStruct2()") = from_str(EmptyStruct2, "()")

\* the named unit type, decoded from "()"
C5_Witness ==
    /\ Done /\ target = EmptyStruct1 /\ input = "()"
    /\ result.ok /\ result.v = <<"Unit">>

\* C6: Value::from_str on the text "None" returns Ok(Value::Option(None)).
C6_ValueNone ==
    (Done /\ target = Value /\ input = "None") =>
        (result.ok /\ result.v = <<"Option", <<>>>>)

\* the error kinds of a top-level sequence, tuple, map or struct
OpenErr(shape) ==
    CASE Kind(shape) = "map" -> "ExpectedMap"
      [] Kind(shape) = "struct" -> "ExpectedStruct"
      [] OTHER -> "ExpectedArray"
EndErr(shape) ==
    CASE Kind(shape) = "map" -> "ExpectedMapEnd"
      [] Kind(shape) = "struct" -> "ExpectedStructEnd"
      [] OTHER -> "ExpectedArrayEnd"
CommaErr(shape) ==
    IF MapLike(shape) THEN "ExpectedMapComma" ELSE "ExpectedArrayComma"
\* the call the visitor makes of the iterator where it stands
NextOfIt ==
    IF pc = "element" THEN next_element_seed(it, ElemSeed(target, Len(acc) + 1))
    ELSE next_key_seed(it, KeySeed(target))

\* C7: malformed structural input yields the error kind of what is missing:
\* no opening delimiter, ExpectedArray / ExpectedMap / ExpectedStruct; a
\* text that lacks nothing but its closing delimiter (as "[1,2"),
\* ExpectedArrayEnd / ExpectedMapEnd / ExpectedStructEnd; an element that
\* follows another without a comma, ExpectedArrayComma / ExpectedMapComma; a
\* key with no colon after it, ExpectedMapColon.
C7_StructuralErrors ==
    /\ (Done /\ Composite(target) /\ ~OpenOf(target, input).ok) =>
           (~result.ok /\ result.e = OpenErr(target))
    /\ (Done /\ Composite(target)
          /\ from_str(target, input \o TerminatorOf(target)).ok
          /\ Elements(from_str(target, input \o TerminatorOf(target)).v) > 0) =>
           (~result.ok /\ result.e = EndErr(target))
    /\ (/\ pc \in {"element", "key"}
        /\ pc = "element" => Wants(target, Len(acc))
        /\ ~it.first
        /\ Current(bytes) \notin Whitespace \cup {",", "", TerminatorOf(target)}) =>
           (~NextOfIt.ok /\ NextOfIt.e = CommaErr(target))
    /\ (pc = "value" /\ Current(skip_ws(bytes)) # ":") =>
           (/\ ~next_value_seed(it, ValueSeed(target, key)).ok
            /\ next_value_seed(it, ValueSeed(target, key)).e = "ExpectedMapColon")

\* the keys of a sequence of entries, and the place of the last entry of key k
KeysOf(es) == {es[j][1] : j \in 1..Len(es)}
LastOf(es, k) ==
    CHOOSE j \in 1..Len(es) :
        es[j][1] = k /\ \A l \in (j + 1)..Len(es) : es[l][1] # k
Orders(n) == {f \in [1..n -> 1..n] : \A i, j \in 1..n : f[i] = f[j] => i = j}

\* C8: the Map visit_map builds from the entries it was given holds one
\* entry for each distinct key, with the value of the key's last occurrence,
\* in ascending key order; entries of distinct keys given in any other order
\* build the same Map.
C8_MapLastWriteWins ==
    /\ \A i \in 1..(Len(res) - 1) : Cmp(res[i][1], res[i + 1][1]) < 0
    /\ KeysOf(res) = KeysOf(entries)
    /\ Len(res) = Cardinality(KeysOf(entries))
    /\ \A i \in 1..Len(res) : res[i][2] = entries[LastOf(entries, res[i][1])][2]
    /\ Cardinality(KeysOf(entries)) = Len(entries) =>
           \A f \in Orders(Len(entries)) :
               value_visit_map(<<>>, [i \in 1..Len(entries) |-> entries[f[i]]]) = res
    /\ (pc = "done") => result = Ok(<<"Map", res>>, "")

\* a key given twice with different values, after a larger key
C8_Witness ==
    /\ pc = "done"
    /\ Len(entries) = 3
    /\ entries[2][1] = entries[3][1]
    /\ entries[2][2] # entries[3][2]
    /\ Cmp(entries[1][1], entries[2][1]) > 0
    /\ Len(res) = 2

\* the number an integer literal denotes
LitValue(s) == IF StartsWith(s, "-") THEN 0 - DecValue(Tail(s)) ELSE DecValue(s)

\* C9: an integer literal whose value is in the range of the target width
\* decodes to that value, for the signed and unsigned targets of 8, 16, 32
\* and 64 bits.
C9_IntegerWidths ==
    (Done /\ target \in IntShapes /\ input \in IntLiterals
       /\ InRange(target[1], LitValue(input))) =>
        (result.ok /\ result.v = <<"Int", LitValue(input)>>)

Punctuation == {"[", "]", "(", ")", "{", "}", ",", ":"}
Without(s, j) == SubSeq(s, 1, j - 1) \o SubSeq(s, j + 1, Len(s))
\* byte j of the input is whitespace next to a delimiter, a comma or a colon,
\* between the opening delimiter of the top-level value and its terminator,
\* in a text that decodes when the byte is left out
Insignificant(j) ==
    /\ CharAt(input, j) \in Whitespace
    /\ CharAt(input, j - 1) \in Punctuation \/ CharAt(input, j + 1) \in Punctuation
    /\ OpenOf(target, input).ok
    /\ j > Len(input) - Len(OpenOf(target, input).bytes)
    /\ Deserialize(target, Without(input, j)).ok
    /\ j < Len(input) - Len(Deserialize(target, Without(input, j)).bytes)

\* C10: whitespace between the opening delimiter and the terminator, between
\* the last element and the terminator and around elements, commas and
\* colons is skipped: the text decodes to what it decodes to without it.
C10_WhitespaceSkipped ==
    (Done /\ Composite(target)) =>
        \A j \in 1..Len(input) :
            Insignificant(j) =>
                (t.ok /\ t.v = Deserialize(target, Without(input, j)).v)

\* the top-level visitor is between two calls of the iterator
Iterating == pc \in {"element", "key", "value"}
\* the error kinds a decode returns (an unwinding panic is none of them)
ExpectedKinds ==
    { "ExpectedArray", "ExpectedArrayComma", "ExpectedArrayEnd", "ExpectedBoolean",
      "ExpectedFloat", "ExpectedInteger", "ExpectedIdentifier", "ExpectedMap",
      "ExpectedMapColon", "ExpectedMapComma", "ExpectedMapEnd", "ExpectedStruct",
      "ExpectedStructEnd", "ExpectedOption", "ExpectedOptionEnd", "ExpectedUnit",
      "Message" }

CommaFirst ==
    OpenOf(target, input).ok /\ Current(skip_ws(OpenOf(target, input).bytes)) = ","
\* the input has two commas in a row
CommaTwice == \E j \in 1..Len(input) : CharAt(input, j) = "," /\ CharAt(input, j + 1) = ","

\* C12: a sequence, tuple, map or struct text whose body starts with a comma
\* or has two commas in a row is rejected with an error, however many
\* elements the visitor reads from the iterator.
C12_CommaAfterElement ==
    (Done /\ Composite(target) /\ (CommaFirst \/ CommaTwice)) => ~result.ok

====
